---------------------------- MODULE Spec2Model ----------------------------
(***************************************************************************)
(* Non-maximum suppression of mmcv/ops/nms.py: nms, soft_nms, batched_nms  *)
(* and nms_match as pure functions of the caller's arrays.                  *)
(*                                                                         *)
(* Arrays are sequences, so positions are 1..N where the Python code has   *)
(* 0..N-1.  Real numbers (scores, thresholds, IoU) are exact rationals     *)
(* <<n, d>> with d > 0; box coordinates are integers.                       *)
(***************************************************************************)
EXTENDS Integers, Sequences, FiniteSets, TLC

VARIABLES boxes, scores, idxs, pc, call, result

vars == <<boxes, scores, idxs, pc, call, result>>

----------------------------------------------------------------------------
(* Bounds of the model *)

MaxN == 3

(* Program constants *)

DefaultSplitThr == 10000

----------------------------------------------------------------------------
(* Exact rational arithmetic *)

Abs(x) == IF x < 0 THEN -x ELSE x

RECURSIVE Gcd(_, _)
Gcd(a, b) == IF b = 0 THEN a ELSE Gcd(b, a % b)

Rat(n, d) ==
    LET g == Gcd(Abs(n), d)
    IN  IF n = 0 THEN <<0, 1>> ELSE <<n \div g, d \div g>>

RLess(a, b) == a[1] * b[2] < b[1] * a[2]
RLeq(a, b) == a[1] * b[2] <= b[1] * a[2]
RMul(a, b) == Rat(a[1] * b[1], a[2] * b[2])
RNeg(a) == <<-a[1], a[2]>>

\* 1 / a and a / b for a, b # 0 (the sign is kept in the numerator)
RInv(a) == IF a[1] > 0 THEN Rat(a[2], a[1]) ELSE Rat(-a[2], -a[1])
RDiv(a, b) == RMul(a, RInv(b))

Min(a, b) == IF a < b THEN a ELSE b
Max(a, b) == IF a > b THEN a ELSE b

RECURSIVE SeqMax(_)
SeqMax(s) == IF Len(s) = 1 THEN s[1] ELSE Max(s[1], SeqMax(Tail(s)))

----------------------------------------------------------------------------
(* Tensor helpers *)

\* t[inds]: the rows of t at the positions inds, in the order of inds
Gather(t, inds) == [k \in 1..Len(inds) |-> t[inds[k]]]

\* mask.nonzero(): the positions that satisfy the mask, ascending
RECURSIVE NonZeroFrom(_, _)
NonZeroFrom(mask, k) ==
    IF k > Len(mask) THEN <<>>
    ELSE (IF mask[k] THEN <<k>> ELSE <<>>) \o NonZeroFrom(mask, k + 1)

NonZero(mask) == NonZeroFrom(mask, 1)

\* torch.cat((boxes, scores[:, None]), dim=1)
CatScore(bs, ss) == [k \in 1..Len(bs) |-> Append(bs[k], ss[k])]

Range(s) == {s[k] : k \in 1..Len(s)}

\* the integers of S, ascending (torch.unique of the class ids)
RECURSIVE SortedSeq(_)
SortedSeq(S) ==
    IF S = {} THEN <<>>
    ELSE <<CHOOSE x \in S : \A y \in S : x <= y>>
         \o SortedSeq(S \ {CHOOSE x \in S : \A y \in S : x <= y})

\* t[:n] for n > 0
Prefix(t, n) == SubSeq(t, 1, Min(n, Len(t)))

----------------------------------------------------------------------------
(* Geometry primitive: IoU of two axis-aligned boxes <<x1, y1, x2, y2>> *)

Area(b, offset) == (b[3] - b[1] + offset) * (b[4] - b[2] + offset)

Intersection(a, b, offset) ==
    LET w == Max(0, Min(a[3], b[3]) - Max(a[1], b[1]) + offset)
        h == Max(0, Min(a[4], b[4]) - Max(a[2], b[2]) + offset)
    IN  w * h

IoU(a, b, offset) ==
    LET inter == Intersection(a, b, offset)
        den == Area(a, offset) + Area(b, offset) - inter
    IN  IF den <= 0 THEN <<0, 1>> ELSE Rat(inter, den)

----------------------------------------------------------------------------
(* Greedy NMS engine *)

\* the offset nms_pytorch uses when its caller passes none
NmsPytorchOffset == 0

\* insert position x behind every position whose score is >= the score of x
RECURSIVE InsertDesc(_, _, _)
InsertDesc(x, sorted, ss) ==
    IF sorted = <<>> THEN <<x>>
    ELSE IF RLess(ss[Head(sorted)], ss[x])
         THEN <<x>> \o sorted
         ELSE <<Head(sorted)>> \o InsertDesc(x, Tail(sorted), ss)

\* stable sort of the positions inds by score, descending
RECURSIVE StableSortDesc(_, _)
StableSortDesc(inds, ss) ==
    IF inds = <<>> THEN <<>>
    ELSE InsertDesc(inds[Len(inds)],
                    StableSortDesc(SubSeq(inds, 1, Len(inds) - 1), ss), ss)

\* scan the sorted order: keep the head, drop what it suppresses
RECURSIVE GreedyScan(_, _, _, _)
GreedyScan(order, bs, thr, offset) ==
    IF order = <<>> THEN <<>>
    ELSE LET i == Head(order)
             rest == SelectSeq(Tail(order),
                         LAMBDA j : ~RLess(thr, IoU(bs[i], bs[j], offset)))
         IN  <<i>> \o GreedyScan(rest, bs, thr, offset)

nms_pytorch(bboxes, ss, iou_threshold) ==
    GreedyScan(StableSortDesc([k \in 1..Len(bboxes) |-> k], ss),
               bboxes, iou_threshold, NmsPytorchOffset)

\* mutant: the positions above the threshold, highest position first
ValidIndsDescending(ss, score_threshold) ==
    [k \in 1..Len(NonZero([j \in 1..Len(ss) |-> RLess(score_threshold, ss[j])])) |->
        NonZero([j \in 1..Len(ss) |-> RLess(score_threshold, ss[j])])[
            Len(NonZero([j \in 1..Len(ss) |-> RLess(score_threshold, ss[j])])) + 1 - k]]

\* torch.nonzero(scores > score_threshold)
ValidInds(ss, score_threshold) ==
    NonZero([k \in 1..Len(ss) |-> RLess(score_threshold, ss[k])])

\* mutant: max_num = 0 caps the output too
CapIndsFromZero(inds, max_num) == IF max_num >= 0 THEN Prefix(inds, max_num) ELSE inds

\* mutant: every max_num but 0 slices, and inds[:-1] drops the last index
CapIndsNonZero(inds, max_num) == IF max_num > 0 THEN Prefix(inds, max_num) ELSE IF max_num < 0 THEN SubSeq(inds, 1, Len(inds) + max_num) ELSE inds

\* inds[:max_num] when max_num > 0
CapInds(inds, max_num) == IF max_num > 0 THEN Prefix(inds, max_num) ELSE inds

\* mutant: the result of the filtered call is not mapped through valid_inds
FilteredForwardUnmapped(bboxes, ss, iou_threshold, max_num, valid_inds) ==
    CapInds(nms_pytorch(Gather(bboxes, valid_inds), Gather(ss, valid_inds),
                        iou_threshold),
            max_num)

\* the filtered call: valid_inds maps the result back to the caller's positions
FilteredForward(bboxes, ss, iou_threshold, max_num, valid_inds) ==
    Gather(valid_inds,
           CapInds(nms_pytorch(Gather(bboxes, valid_inds), Gather(ss, valid_inds),
                               iou_threshold),
                   max_num))

\* mutant: the threshold reaches the scan as int(iou_threshold)
NMSop_forward_int_threshold(bboxes, ss, iou_threshold, offset, score_threshold, max_num) ==
    IF RLess(<<0, 1>>, score_threshold)
    THEN FilteredForward(bboxes, ss, <<0, 1>>, max_num,
                         ValidInds(ss, score_threshold))
    ELSE CapInds(nms_pytorch(bboxes, ss, <<0, 1>>), max_num)

\* mutant: the score filter is also applied with score_threshold = 0
NMSop_forward_filter_at_zero(bboxes, ss, iou_threshold, offset, score_threshold, max_num) ==
    IF RLeq(<<0, 1>>, score_threshold)
    THEN FilteredForward(bboxes, ss, iou_threshold, max_num,
                         ValidInds(ss, score_threshold))
    ELSE CapInds(nms_pytorch(bboxes, ss, iou_threshold), max_num)

NMSop_forward(bboxes, ss, iou_threshold, offset, score_threshold, max_num) ==
    IF RLess(<<0, 1>>, score_threshold)
    THEN FilteredForward(bboxes, ss, iou_threshold, max_num,
                         ValidInds(ss, score_threshold))
    ELSE CapInds(nms_pytorch(bboxes, ss, iou_threshold), max_num)

Failure(kind) == [status |-> kind, dets |-> <<>>, inds |-> <<>>]

\* mutant: the kept detections are returned in the order of their positions
NmsReturnByPosition(bs, ss, inds) ==
    [status |-> "ok",
     dets |-> CatScore(Gather(bs, SortedSeq(Range(inds))),
                       Gather(ss, SortedSeq(Range(inds)))),
     inds |-> SortedSeq(Range(inds))]

\* dets = torch.cat((boxes[inds], scores[inds].reshape(-1, 1)), dim=1)
NmsReturn(bs, ss, inds) ==
    [status |-> "ok",
     dets |-> CatScore(Gather(bs, inds), Gather(ss, inds)),
     inds |-> inds]

\* mutant: the offset is not validated
nms_any_offset(bs, ss, iou_threshold, offset, score_threshold, max_num) ==
    IF \E k \in 1..Len(bs) : Len(bs[k]) # 4 THEN Failure("AssertionError")
    ELSE IF Len(bs) # Len(ss) THEN Failure("AssertionError")
    ELSE NmsReturn(bs, ss, NMSop_forward(bs, ss, iou_threshold, offset,
                                         score_threshold, max_num))

nms(bs, ss, iou_threshold, offset, score_threshold, max_num) ==
    IF \E k \in 1..Len(bs) : Len(bs[k]) # 4 THEN Failure("AssertionError")
    ELSE IF Len(bs) # Len(ss) THEN Failure("AssertionError")
    ELSE IF offset \notin {0, 1} THEN Failure("AssertionError")
    ELSE NmsReturn(bs, ss, NMSop_forward(bs, ss, iou_threshold, offset,
                                         score_threshold, max_num))

----------------------------------------------------------------------------
(* Soft-NMS engine *)

\* exp(y) for a rational y, to first order: 1 + y for y >= 0 and 1 / (1 - y)
\* for y < 0, so that exp(0) = 1, 0 < exp(y) < 1 for y < 0, exp(y) > 1 for
\* y > 0, and the value grows with y
ExpPos(y) == Rat(y[2] + y[1], y[2])

Exp(y) == IF y[1] >= 0 THEN ExpPos(y) ELSE RInv(ExpPos(RNeg(y)))

\* the factor a remaining score is multiplied with after a pick
Weight(method, iou, iou_threshold, sigma) ==
    IF method = "naive"
    THEN (IF RLess(iou_threshold, iou) THEN <<0, 1>> ELSE <<1, 1>>)
    ELSE IF method = "linear"
    THEN (IF RLess(iou_threshold, iou) THEN Rat(iou[2] - iou[1], iou[2])
          ELSE <<1, 1>>)
    ELSE \* "gaussian": exp(-iou^2 / sigma), whatever the threshold
         Exp(RNeg(RDiv(RMul(iou, iou), sigma)))

\* the scores after position i was picked: every other position of the
\* pool decays by its IoU with box i
Decay(i, others, cur, bs, iou_threshold, sigma, method) ==
    [j \in 1..Len(cur) |->
        IF j \in Range(others)
        THEN RMul(cur[j], Weight(method, IoU(bs[i], bs[j], NmsPytorchOffset),
                                 iou_threshold, sigma))
        ELSE cur[j]]

\* pool: the positions still considered, cur: the current score of every
\* position; the result is the sequence of picks with their final scores
RECURSIVE SoftScan(_, _, _, _, _, _, _)
SoftPick(order, cur, bs, iou_threshold, sigma, min_score, method) ==
    IF order = <<>> THEN <<>>
    ELSE <<[ind |-> Head(order), score |-> cur[Head(order)]]>>
         \o SoftScan(Tail(order),
                     Decay(Head(order), Tail(order), cur, bs, iou_threshold, sigma,
                           method),
                     bs, iou_threshold, sigma, min_score, method)

SoftScan(pool, cur, bs, iou_threshold, sigma, min_score, method) ==
    SoftPick(StableSortDesc(SelectSeq(pool, LAMBDA j : RLess(min_score, cur[j])),
                            cur),
             cur, bs, iou_threshold, sigma, min_score, method)

SoftReturn(bs, picks) ==
    [dets |-> CatScore([k \in 1..Len(picks) |-> bs[picks[k].ind]],
                       [k \in 1..Len(picks) |-> picks[k].score]),
     inds |-> [k \in 1..Len(picks) |-> picks[k].ind]]

soft_nms_pytorch(bs, ss, iou_threshold, sigma, min_score, method) ==
    SoftReturn(bs, SoftScan([k \in 1..Len(bs) |-> k], ss, bs, iou_threshold,
                            sigma, min_score, method))

\* mutant: the sign of sigma is lost on the way to the kernel
SoftNMSop_forward_neg_sigma(bs, ss, iou_threshold, sigma, min_score, method, offset) ==
    soft_nms_pytorch(bs, ss, iou_threshold, RNeg(sigma), min_score, method)

\* mutant: sigma and min_score reach the kernel in each other's place
SoftNMSop_forward_swapped(bs, ss, iou_threshold, sigma, min_score, method, offset) ==
    soft_nms_pytorch(bs, ss, iou_threshold, min_score, sigma, method)

\* mutant: method_map is off by one for the first method
SoftNMSop_forward_method_shift(bs, ss, iou_threshold, sigma, min_score, method, offset) ==
    soft_nms_pytorch(bs, ss, iou_threshold, sigma, min_score, IF method = "naive" THEN "linear" ELSE method)

\* mutant: the sign of min_score is lost on the way to the kernel
SoftNMSop_forward_neg_min_score(bs, ss, iou_threshold, sigma, min_score, method, offset) ==
    soft_nms_pytorch(bs, ss, iou_threshold, sigma, RNeg(min_score), method)

\* method_map[method_dict[method]] is the method; offset is not passed on
SoftNMSop_forward(bs, ss, iou_threshold, sigma, min_score, method, offset) ==
    soft_nms_pytorch(bs, ss, iou_threshold, sigma, min_score, method)

\* dets = dets[:inds.size(0)]
SoftNmsReturn(r) ==
    [status |-> "ok", dets |-> Prefix(r.dets, Len(r.inds)), inds |-> r.inds]

soft_nms(bs, ss, iou_threshold, sigma, min_score, method, offset) ==
    IF \E k \in 1..Len(bs) : Len(bs[k]) # 4 THEN Failure("AssertionError")
    ELSE IF Len(bs) # Len(ss) THEN Failure("AssertionError")
    ELSE IF offset \notin {0, 1} THEN Failure("AssertionError")
    ELSE IF method \notin {"naive", "linear", "gaussian"}
         THEN Failure("AssertionError")
    ELSE SoftNmsReturn(SoftNMSop_forward(bs, ss, iou_threshold, sigma, min_score,
                                         method, offset))

----------------------------------------------------------------------------
(* Class-partitioned batched NMS *)

\* dict.pop(key, default) reads the value; Without is the dict left behind
Pop(d, key, default) == IF key \in DOMAIN d THEN d[key] ELSE default
Without(d, keys) == [k \in (DOMAIN d) \ keys |-> d[k]]

\* The dict objects of a batched_nms call, the caller's dict first and the
\* dict the name nms_cfg_ is bound to last
\* mutant: nms_cfg_ = nms_cfg, the name bound to the caller's dict
NmsCfgAlias(heap) == heap

\* nms_cfg_ = nms_cfg.copy(): a new dict object with the same items
NmsCfgCopy(heap) == Append(heap, heap[1])

\* nms_cfg_.pop(key, default) removes the key from the dict nms_cfg_ names
DictPop(heap, key) == [heap EXCEPT ![Len(heap)] = Without(@, {key})]

RECURSIVE DictPopAll(_, _)
DictPopAll(heap, keys) ==
    IF keys = <<>> THEN heap
    ELSE DictPopAll(DictPop(heap, Head(keys)), Tail(keys))

\* the keys batched_nms pops, in order: class_agnostic; type and split_thr
\* once boxes_for_nms exists (boxes.max() fails without boxes); max_num on
\* the split path
PoppedKeys(bs, nms_cfg, class_agnostic) ==
    <<"class_agnostic">>
    \o (IF ~Pop(nms_cfg, "class_agnostic", class_agnostic) /\ Len(bs) = 0
        THEN <<>>
        ELSE <<"type", "split_thr">>
             \o (IF Len(bs) < Pop(nms_cfg, "split_thr", DefaultSplitThr)
                 THEN <<>> ELSE <<"max_num">>))

\* the caller's dict when batched_nms has returned or failed
CallerCfgAfter(bs, nms_cfg, class_agnostic) ==
    DictPopAll(NmsCfgCopy(<<nms_cfg>>), PoppedKeys(bs, nms_cfg, class_agnostic))[1]

\* nms_op(b, s, **kwargs) for the two operations the type string can name
NmsKeys == {"iou_threshold", "offset", "score_threshold", "max_num"}
SoftNmsKeys == {"iou_threshold", "sigma", "min_score", "method", "offset"}

ApplyOp(nms_op, bs, ss, kwargs) ==
    IF nms_op = "nms"
    THEN IF ~(DOMAIN kwargs \subseteq NmsKeys) \/ "iou_threshold" \notin DOMAIN kwargs
         THEN Failure("TypeError")
         ELSE nms(bs, ss, kwargs["iou_threshold"], Pop(kwargs, "offset", 0),
                  Pop(kwargs, "score_threshold", <<0, 1>>),
                  Pop(kwargs, "max_num", -1))
    ELSE IF ~(DOMAIN kwargs \subseteq SoftNmsKeys)
         THEN Failure("TypeError")
         ELSE soft_nms(bs, ss, Pop(kwargs, "iou_threshold", <<3, 10>>),
                       Pop(kwargs, "sigma", <<1, 2>>),
                       Pop(kwargs, "min_score", <<1, 1000>>),
                       Pop(kwargs, "method", "linear"),
                       Pop(kwargs, "offset", 0))

\* every order torch.sort(descending=True) may return: the positions S by
\* descending score, positions of equal score in any order
RECURSIVE SortedOrders(_, _)
SortedOrders(S, ss) ==
    IF S = {} THEN { <<>> }
    ELSE UNION { { <<x>> \o rest : rest \in SortedOrders(S \ {x}, ss) } :
                 x \in { y \in S : \A z \in S : RLeq(ss[z], ss[y]) } }

SortDescending(inds, ss) == SortedOrders(Range(inds), ss)

\* boxes.max(): the largest coordinate of the batch
RECURSIVE BoxesMax(_)
BoxesMax(bs) ==
    IF Len(bs) = 1 THEN SeqMax(bs[1])
    ELSE Max(SeqMax(bs[1]), BoxesMax(Tail(bs)))

\* boxes + offsets[:, None] with offsets = idxs * (max_coordinate + 1)
AddOffsets(bs, ids, max_coordinate) ==
    [k \in 1..Len(bs) |->
        [c \in 1..Len(bs[k]) |-> bs[k][c] + ids[k] * (max_coordinate + 1)]]

ShiftedBoxes(bs, ids) == AddOffsets(bs, ids, BoxesMax(bs))

\* boxes[..., lo:hi].max()
ColsMax(bs, lo, hi) == BoxesMax([k \in 1..Len(bs) |-> SubSeq(bs[k], lo, hi)])

\* rotated boxes: max_coordinate = boxes[..., :2].max() + boxes[..., 2:4].max(),
\* and the offset is added to the centre only
ShiftedRotated(bs, ids) ==
    [k \in 1..Len(bs) |->
        SubSeq(AddOffsets(bs, ids, ColsMax(bs, 1, 2) + ColsMax(bs, 3, 4))[k], 1, 2)
        \o SubSeq(bs[k], 3, 5)]

\* the last column of a row of dets
LastCol(row) == row[Len(row)]

\* mutant: total_mask[keep] in place of total_mask[mask[keep]]
MaskKeepUnmapped(mask, keep) == keep

\* mask[keep]: the caller's positions of what a partition kept
MaskKeep(mask, keep) == Gather(mask, keep)

\* mutant: total_mask is overwritten by each partition instead of accumulated
ScatterOverwrite(acc, kept, dets) ==
    [status |-> "ok",
     total_mask |-> [j \in 1..Len(acc.total_mask) |-> j \in Range(kept)],
     scores_after_nms |-> [j \in 1..Len(acc.total_mask) |->
         IF j \in Range(kept)
         THEN LastCol(dets[CHOOSE k \in 1..Len(kept) : kept[k] = j])
         ELSE acc.scores_after_nms[j]]]

\* mutant: a partition writes its scores into a fresh scores_after_nms
ScatterFreshScores(acc, kept, dets) ==
    [status |-> "ok",
     total_mask |-> [j \in 1..Len(acc.total_mask) |->
         acc.total_mask[j] \/ j \in Range(kept)],
     scores_after_nms |-> [j \in 1..Len(acc.total_mask) |->
         IF j \in Range(kept)
         THEN LastCol(dets[CHOOSE k \in 1..Len(kept) : kept[k] = j])
         ELSE <<0, 1>>]]

\* total_mask[mask[keep]] = True; scores_after_nms[mask[keep]] = dets[:, -1]
Scatter(acc, kept, dets) ==
    [status |-> "ok",
     total_mask |-> [j \in 1..Len(acc.total_mask) |->
         acc.total_mask[j] \/ j \in Range(kept)],
     scores_after_nms |-> [j \in 1..Len(acc.total_mask) |->
         IF j \in Range(kept)
         THEN LastCol(dets[CHOOSE k \in 1..Len(kept) : kept[k] = j])
         ELSE acc.scores_after_nms[j]]]

\* the body of the loop for one partition, r being what the op returned
SplitStep(acc, mask, r) ==
    IF r.status # "ok"
    THEN [status |-> r.status, total_mask |-> acc.total_mask,
          scores_after_nms |-> acc.scores_after_nms]
    ELSE Scatter(acc, MaskKeep(mask, r.inds), r.dets)

\* one partition: mask = (idxs == id).nonzero()
SplitPartition(acc, mask, boxes_for_nms, ss, nms_op, kwargs) ==
    SplitStep(acc, mask,
              ApplyOp(nms_op, Gather(boxes_for_nms, mask), Gather(ss, mask), kwargs))

\* the loop of the split path over the class ids still to process
RECURSIVE SplitLoop(_, _, _, _, _, _, _)
SplitLoop(ids_left, acc, boxes_for_nms, ss, ids, nms_op, kwargs) ==
    IF ids_left = <<>> \/ acc.status # "ok" THEN acc
    ELSE SplitLoop(Tail(ids_left),
                   SplitPartition(acc,
                       NonZero([k \in 1..Len(ids) |-> ids[k] = Head(ids_left)]),
                       boxes_for_nms, ss, nms_op, kwargs),
                   boxes_for_nms, ss, ids, nms_op, kwargs)

\* return torch.cat([boxes[keep], scores[:, None]], -1), keep
BatchedReturn(bs, row_scores, keep) ==
    [status |-> "ok", dets |-> CatScore(Gather(bs, keep), row_scores), inds |-> keep]

\* mutant: the scores are sorted but the boxes are not reordered with them
BypassBoxesInPlace(bs, ss) ==
    { [status |-> "ok", dets |-> CatScore(bs, Gather(ss, inds)), inds |-> inds] :
        inds \in SortDescending([k \in 1..Len(ss) |-> k], ss) }

\* nms_cfg is None: every detection, sorted by score; inds are the
\* positions of scores, and boxes[inds] fails on a position boxes lacks
Bypass(bs, ss) ==
    IF Len(ss) > Len(bs) THEN { Failure("IndexError") }
    ELSE { BatchedReturn(bs, Gather(ss, inds), inds) :
             inds \in SortDescending([k \in 1..Len(ss) |-> k], ss) }

\* mutant: the rows the op returned (shifted boxes) are returned as they are
SinglePassReturnsDets(bs, r) ==
    IF r.status # "ok" THEN { Failure(r.status) }
    ELSE { [status |-> "ok", dets |-> r.dets, inds |-> r.inds] }

\* N < split_thr: one call of the op on boxes_for_nms
SinglePass(bs, r) ==
    IF r.status # "ok" THEN { Failure(r.status) }
    ELSE { BatchedReturn(bs, [k \in 1..Len(r.dets) |-> LastCol(r.dets[k])], r.inds) }

\* N >= split_thr: merge the partitions, sort by score, cap at max_num
SplitMerge(bs, acc, max_num) ==
    IF acc.status # "ok" THEN { Failure(acc.status) }
    ELSE { BatchedReturn(bs,
                         Gather(acc.scores_after_nms, CapInds(sorted, max_num)),
                         CapInds(sorted, max_num)) :
           sorted \in SortDescending(NonZero(acc.total_mask), acc.scores_after_nms) }

\* boxes_for_nms, or the error of boxes.max() on an empty tensor
BatchedOn(bs, ss, ids, nms_cfg, boxes_for_nms) ==
    IF Len(boxes_for_nms) < Pop(nms_cfg, "split_thr", DefaultSplitThr)
    THEN SinglePass(bs,
             ApplyOp(Pop(nms_cfg, "type", "nms"), boxes_for_nms, ss,
                     Without(nms_cfg, {"class_agnostic", "type", "split_thr"})))
    ELSE SplitMerge(bs,
             SplitLoop(SortedSeq(Range(ids)),
                       [status |-> "ok",
                        total_mask |-> [j \in 1..Len(ss) |-> FALSE],
                        scores_after_nms |-> [j \in 1..Len(ss) |-> <<0, 1>>]],
                       boxes_for_nms, ss, ids, Pop(nms_cfg, "type", "nms"),
                       Without(nms_cfg, {"class_agnostic", "type", "split_thr",
                                         "max_num"})),
             Pop(nms_cfg, "max_num", -1))

\* the set of results batched_nms can return (one per tie order of torch.sort)
batched_nms(bs, ss, ids, has_cfg, nms_cfg, class_agnostic) ==
    IF ~has_cfg THEN Bypass(bs, ss)
    ELSE IF Pop(nms_cfg, "class_agnostic", class_agnostic)
         THEN BatchedOn(bs, ss, ids, nms_cfg, bs)
    ELSE IF Len(bs) = 0 THEN { Failure("RuntimeError") }
    ELSE IF Len(bs[1]) = 5
         THEN BatchedOn(bs, ss, ids, nms_cfg, ShiftedRotated(bs, ids))
    ELSE BatchedOn(bs, ss, ids, nms_cfg, ShiftedBoxes(bs, ids))

----------------------------------------------------------------------------
(* NMS-match grouping; a row of dets is <<x1, y1, x2, y2, score>> *)

\* the greedy scan of nms, a suppressed position joining the group of the
\* position that suppressed it
RECURSIVE MatchScan(_, _, _)
MatchScan(order, dets, thr) ==
    IF order = <<>> THEN <<>>
    ELSE << <<Head(order)>> \o
            SelectSeq(Tail(order),
                LAMBDA j : RLess(thr, IoU(dets[Head(order)], dets[j],
                                          NmsPytorchOffset))) >>
         \o MatchScan(SelectSeq(Tail(order),
                LAMBDA j : ~RLess(thr, IoU(dets[Head(order)], dets[j],
                                           NmsPytorchOffset))),
                dets, thr)

nms_match_pytorch(dets, iou_threshold) ==
    MatchScan(StableSortDesc([k \in 1..Len(dets) |-> k],
                             [k \in 1..Len(dets) |-> dets[k][5]]),
              dets, iou_threshold)

\* mutant: the threshold reaches the kernel as int(iou_threshold)
nms_match_int_threshold(dets, iou_threshold) ==
    IF Len(dets) = 0 THEN [status |-> "ok", groups |-> <<>>]
    ELSE IF \E k \in 1..Len(dets) : Len(dets[k]) # 5
         THEN [status |-> "AssertionError", groups |-> <<>>]
    ELSE [status |-> "ok", groups |-> nms_match_pytorch(dets, <<0, 1>>)]

\* mutant: the empty-input guard also catches a single detection
nms_match_guard(dets, iou_threshold) ==
    IF Len(dets) <= 1 THEN [status |-> "ok", groups |-> <<>>]
    ELSE IF \E k \in 1..Len(dets) : Len(dets[k]) # 5
         THEN [status |-> "AssertionError", groups |-> <<>>]
    ELSE [status |-> "ok", groups |-> nms_match_pytorch(dets, iou_threshold)]

\* mutant: every group is sorted by index when it is converted for the caller
nms_match_sorted(dets, iou_threshold) ==
    IF Len(dets) = 0 THEN [status |-> "ok", groups |-> <<>>]
    ELSE IF \E k \in 1..Len(dets) : Len(dets[k]) # 5
         THEN [status |-> "AssertionError", groups |-> <<>>]
    ELSE [status |-> "ok",
          groups |-> [g \in 1..Len(nms_match_pytorch(dets, iou_threshold)) |->
              SortedSeq(Range(nms_match_pytorch(dets, iou_threshold)[g]))]]

nms_match(dets, iou_threshold) ==
    IF Len(dets) = 0 THEN [status |-> "ok", groups |-> <<>>]
    ELSE IF \E k \in 1..Len(dets) : Len(dets[k]) # 5
         THEN [status |-> "AssertionError", groups |-> <<>>]
    ELSE [status |-> "ok", groups |-> nms_match_pytorch(dets, iou_threshold)]

----------------------------------------------------------------------------
(* Inputs *)

\* a chain of overlapping boxes (IoU 3/5 between neighbours, 1/3 between the
\* ends) and a box with negative coordinates
BoxA == <<0, 0, 4, 1>>
BoxB == <<1, 0, 5, 1>>
BoxC == <<2, 0, 6, 1>>
BoxNeg == <<-5, -5, -1, -4>>

\* rotated boxes <<cx, cy, w, h, angle>>
RotA == <<2, 2, 4, 2, 0>>
RotB == <<3, 2, 4, 2, 1>>

\* a single point: zero area without the +1 term, area 1 with it
BoxPt == <<3, 1, 3, 1>>

ScoreSet == { <<1, 1>>, <<2, 1>> }

\* the scores and score thresholds of the direct calls of nms: a score on
\* each side of every threshold, and a score equal to a threshold
NmsScores == { <<-1, 1>>, <<1, 1>> }
ScoreThresholds == { <<-1, 1>>, <<0, 1>>, <<1, 2>>, <<1, 1>> }
ClassIds == {0, 1}
Thresholds == { <<1, 2>>, <<0, 1>> }

SeqsUpTo(S, n) == UNION { [1..k -> S] : k \in 0..n }

NoCall == [fn |-> "none"]
NoResult == [status |-> "none"]

Done(fn) == pc = "done" /\ call.fn = fn
Ok(fn) == Done(fn) /\ result.status = "ok"

----------------------------------------------------------------------------
(* nms called on every input *)

InitNms ==
    /\ boxes \in SeqsUpTo({BoxA, BoxB, BoxC, BoxPt}, MaxN)
    /\ scores \in [1..Len(boxes) -> NmsScores]
    /\ idxs = [k \in 1..Len(boxes) |-> 0]
    /\ pc = "start"
    /\ call = NoCall
    /\ result = NoResult

CallNms ==
    /\ pc = "start"
    /\ \E thr \in Thresholds, offset \in 0..2,
          score_threshold \in ScoreThresholds, max_num \in -1..2 :
         /\ call' = [fn |-> "nms", iou_threshold |-> thr, offset |-> offset,
                     score_threshold |-> score_threshold, max_num |-> max_num]
         /\ result' = nms(boxes, scores, thr, offset, score_threshold, max_num)
    /\ pc' = "done"
    /\ UNCHANGED <<boxes, scores, idxs>>

NextNms == CallNms

SpecNms == InitNms /\ [][NextNms]_vars

----------------------------------------------------------------------------
(* soft_nms called on every input *)

SoftScores == { <<-1, 1>>, <<1, 1>>, <<2, 1>> }
Sigmas == { <<1, 2>>, <<-1, 2>> }
MinScores == { <<1, 1000>>, <<-2, 1>> }
Methods == { "naive", "linear", "gaussian", "bilinear" }

\* every method with the default sigma and gaussian also with a negative
\* one, each with both values of min_score; the offsets 1 and 2 with the
\* default method, the offset 1 also with naive
SoftCalls ==
    { c \in [method : Methods, sigma : Sigmas, min_score : MinScores,
             offset : 0..2] :
        /\ c.method # "gaussian" => c.sigma = <<1, 2>>
        /\ c.offset # 0 =>
              /\ c.min_score = <<1, 1000>>
              /\ c.method = "linear" \/ (c.method = "naive" /\ c.offset = 1) }

InitSoft ==
    /\ boxes \in SeqsUpTo({BoxA, BoxB, BoxC}, MaxN)
    /\ scores \in [1..Len(boxes) -> SoftScores]
    /\ idxs = [k \in 1..Len(boxes) |-> 0]
    /\ pc = "start"
    /\ call = NoCall
    /\ result = NoResult

CallSoftNms ==
    /\ pc = "start"
    /\ \E c \in SoftCalls :
         /\ call' = [fn |-> "soft_nms", iou_threshold |-> <<1, 2>>,
                     sigma |-> c.sigma, min_score |-> c.min_score,
                     method |-> c.method, offset |-> c.offset]
         /\ result' = soft_nms(boxes, scores, <<1, 2>>, c.sigma, c.min_score,
                               c.method, c.offset)
    /\ pc' = "done"
    /\ UNCHANGED <<boxes, scores, idxs>>

NextSoft == CallSoftNms

SpecSoft == InitSoft /\ [][NextSoft]_vars

----------------------------------------------------------------------------
(* nms and soft_nms called on arrays of any shape: boxes of 4 or 5 columns *)
(* (a tensor without rows is taken to have 4), scores of any length        *)

InitShapes ==
    /\ boxes \in SeqsUpTo({BoxA, BoxB}, MaxN) \cup SeqsUpTo({RotA}, MaxN)
    /\ scores \in SeqsUpTo(ScoreSet, MaxN)
    /\ idxs = <<>>
    /\ pc = "start"
    /\ call = NoCall
    /\ result = NoResult

NextValidate == CallNms \/ CallSoftNms

SpecValidate == InitShapes /\ [][NextValidate]_vars

----------------------------------------------------------------------------
(* The examples of the docstrings of nms and soft_nms, and every           *)
(* sub-selection of their detections; coordinates are in tenths, which     *)
(* leaves the IoU of offset 0 as it is                                     *)

NmsExampleBoxes ==
    << <<491, 324, 510, 359>>, <<493, 329, 510, 353>>, <<492, 318, 510, 354>>,
       <<351, 115, 391, 157>>, <<356, 118, 393, 142>>, <<353, 115, 399, 145>>,
       <<352, 117, 397, 157>> >>
NmsExampleScores ==
    << <<9, 10>>, <<9, 10>>, <<1, 2>>, <<1, 2>>, <<1, 2>>, <<2, 5>>, <<3, 10>> >>

SoftExampleBoxes ==
    << <<40, 30, 50, 30>>, <<40, 30, 50, 40>>, <<30, 10, 30, 10>>,
       <<30, 10, 30, 10>>, <<30, 10, 30, 10>>, <<30, 10, 30, 10>> >>
SoftExampleScores ==
    << <<9, 10>>, <<9, 10>>, <<1, 2>>, <<1, 2>>, <<2, 5>>, <<0, 1>> >>

InitExample(bs, ss) ==
    /\ \E mask \in [1..Len(bs) -> BOOLEAN] :
         /\ boxes = Gather(bs, NonZero(mask))
         /\ scores = Gather(ss, NonZero(mask))
    /\ idxs = [k \in 1..Len(boxes) |-> 0]
    /\ pc = "start"
    /\ call = NoCall
    /\ result = NoResult

\* nms(boxes, scores, iou_threshold): the other arguments at their defaults
CallNmsDefaults ==
    /\ pc = "start"
    /\ \E thr \in { <<3, 5>>, <<3, 10>> } :
         /\ call' = [fn |-> "nms", iou_threshold |-> thr, offset |-> 0,
                     score_threshold |-> <<0, 1>>, max_num |-> -1]
         /\ result' = nms(boxes, scores, thr, 0, <<0, 1>>, -1)
    /\ pc' = "done"
    /\ UNCHANGED <<boxes, scores, idxs>>

NextNmsExample == CallNmsDefaults

SpecNmsExample == InitExample(NmsExampleBoxes, NmsExampleScores)
                    /\ [][NextNmsExample]_vars

\* soft_nms(boxes, scores, iou_threshold, sigma=0.5): min_score and offset at
\* their defaults, every method
CallSoftNmsDefaults ==
    /\ pc = "start"
    /\ \E method \in {"naive", "linear", "gaussian"} :
         /\ call' = [fn |-> "soft_nms", iou_threshold |-> <<3, 5>>,
                     sigma |-> <<1, 2>>, min_score |-> <<1, 1000>>,
                     method |-> method, offset |-> 0]
         /\ result' = soft_nms(boxes, scores, <<3, 5>>, <<1, 2>>, <<1, 1000>>,
                               method, 0)
    /\ pc' = "done"
    /\ UNCHANGED <<boxes, scores, idxs>>

NextSoftExample == CallSoftNmsDefaults

SpecSoftExample == InitExample(SoftExampleBoxes, SoftExampleScores)
                     /\ [][NextSoftExample]_vars

----------------------------------------------------------------------------
(* batched_nms called without a config on arrays of any shape *)

InitBatchedShapes ==
    /\ boxes \in SeqsUpTo({BoxA, BoxB}, MaxN) \cup SeqsUpTo({RotA}, MaxN)
    /\ scores \in SeqsUpTo(ScoreSet, MaxN)
    /\ idxs \in SeqsUpTo(ClassIds, MaxN)
    /\ pc = "start"
    /\ call = NoCall
    /\ result = NoResult

----------------------------------------------------------------------------
(* batched_nms called on every input *)

\* an optional key of the config: <<>> when absent, <<v>> when present
Opt(key, o) == IF o = <<>> THEN <<>> ELSE key :> o[1]

\* the op (nms by default, or soft_nms), the split threshold and the cap in
\* every combination for per-class calls; class-agnostic calls, asked for
\* by the argument or by the config, use the default op without a cap
Configs ==
    { Opt("type", t) @@ ("iou_threshold" :> <<1, 2>>) @@ Opt("split_thr", sp)
        @@ Opt("max_num", mn) @@ Opt("class_agnostic", ca) :
        t \in { <<>>, <<"soft_nms">> },
        sp \in { <<>>, <<2>> },
        mn \in { <<>>, <<1>> },
        ca \in { <<>>, <<TRUE>> } }

Calls ==
    { c \in [nms_cfg : Configs, class_agnostic : BOOLEAN] :
        (c.class_agnostic \/ "class_agnostic" \in DOMAIN c.nms_cfg) =>
            /\ DOMAIN c.nms_cfg \cap {"type", "max_num"} = {}
            /\ ~(c.class_agnostic /\ "class_agnostic" \in DOMAIN c.nms_cfg) }

InitBatched ==
    /\ boxes \in SeqsUpTo({BoxA, BoxB, BoxNeg}, MaxN)
    /\ scores \in [1..Len(boxes) -> ScoreSet]
    /\ idxs \in [1..Len(boxes) -> ClassIds]
    /\ pc = "start"
    /\ call = NoCall
    /\ result = NoResult

CallBatchedNms ==
    /\ pc = "start"
    /\ \E c \in Calls :
         /\ call' = [fn |-> "batched_nms", has_cfg |-> TRUE,
                     nms_cfg |-> c.nms_cfg, class_agnostic |-> c.class_agnostic,
                     cfg_after |-> CallerCfgAfter(boxes, c.nms_cfg,
                                                  c.class_agnostic)]
         /\ result' \in batched_nms(boxes, scores, idxs, TRUE, c.nms_cfg,
                                    c.class_agnostic)
    /\ pc' = "done"
    /\ UNCHANGED <<boxes, scores, idxs>>

NextBatched == CallBatchedNms

SpecBatched == InitBatched /\ [][NextBatched]_vars

\* batched_nms called with nms_cfg = None
CallBatchedNmsNoCfg ==
    /\ pc = "start"
    /\ \E class_agnostic \in BOOLEAN :
         /\ call' = [fn |-> "batched_nms", has_cfg |-> FALSE,
                     nms_cfg |-> <<>>, class_agnostic |-> class_agnostic]
         /\ result' \in batched_nms(boxes, scores, idxs, FALSE, <<>>, class_agnostic)
    /\ pc' = "done"
    /\ UNCHANGED <<boxes, scores, idxs>>

NextBypass == CallBatchedNmsNoCfg

SpecBypass == InitBatched /\ [][NextBypass]_vars

SpecBypassShapes == InitBatchedShapes /\ [][NextBypass]_vars

\* every operation called on the same inputs
NextFrame ==
    CallNmsDefaults \/ CallSoftNmsDefaults \/ CallBatchedNms \/ CallBatchedNmsNoCfg

InitFrame ==
    /\ boxes \in SeqsUpTo({BoxA, BoxB}, MaxN)
    /\ scores \in [1..Len(boxes) -> ScoreSet]
    /\ idxs \in [1..Len(boxes) -> ClassIds]
    /\ pc = "start"
    /\ call = NoCall
    /\ result = NoResult

SpecFrame == InitFrame /\ [][NextFrame]_vars

\* the split path of batched_nms step by step, the class partitions taken in
\* any order: result holds total_mask and scores_after_nms while the loop
\* runs, and todo, the class ids whose partition has not run; the class ids
\* are numbered from the class of the first detection
SplitClassIds == {0, 1, 2}

SplitConfigs ==
    { ("iou_threshold" :> <<1, 2>>) @@ ("split_thr" :> 1),
      ("type" :> "soft_nms") @@ ("iou_threshold" :> <<1, 2>>)
          @@ ("split_thr" :> 1) @@ ("max_num" :> 2) }

InitSplit ==
    /\ boxes \in SeqsUpTo({BoxA, BoxB}, MaxN)
    /\ scores \in [1..Len(boxes) -> ScoreSet]
    /\ idxs \in { f \in [1..Len(boxes) -> SplitClassIds] :
                   Len(boxes) >= 1 => f[1] = 0 }
    /\ pc = "start"
    /\ call = NoCall
    /\ result = NoResult

Acc(r) ==
    [status |-> r.status, total_mask |-> r.total_mask,
     scores_after_nms |-> r.scores_after_nms]

WithTodo(acc, todo) ==
    [status |-> acc.status, total_mask |-> acc.total_mask,
     scores_after_nms |-> acc.scores_after_nms, todo |-> todo]

EmptyAcc ==
    [status |-> "ok", total_mask |-> [j \in 1..Len(scores) |-> FALSE],
     scores_after_nms |-> [j \in 1..Len(scores) |-> <<0, 1>>]]

ClassMask(id) == NonZero([k \in 1..Len(idxs) |-> idxs[k] = id])

SplitKwargs(nms_cfg) ==
    Without(nms_cfg, {"class_agnostic", "type", "split_thr", "max_num"})

\* up to the loop: boxes.max() fails without boxes, else the buffers are
\* allocated
EnterSplitLoop ==
    /\ pc = "start"
    /\ \E c \in SplitConfigs :
         call' = [fn |-> "batched_nms", has_cfg |-> TRUE, nms_cfg |-> c,
                  class_agnostic |-> FALSE]
    /\ IF Len(boxes) = 0
       THEN pc' = "done" /\ result' = Failure("RuntimeError")
       ELSE pc' = "loop" /\ result' = WithTodo(EmptyAcc, Range(idxs))
    /\ UNCHANGED <<boxes, scores, idxs>>

\* the body of the loop for one class id
RunPartition ==
    /\ pc = "loop" /\ result.status = "ok"
    /\ \E id \in result.todo :
         result' = WithTodo(SplitPartition(Acc(result), ClassMask(id),
                                           ShiftedBoxes(boxes, idxs), scores,
                                           Pop(call.nms_cfg, "type", "nms"),
                                           SplitKwargs(call.nms_cfg)),
                            result.todo \ {id})
    /\ UNCHANGED <<boxes, scores, idxs, pc, call>>

\* after the loop: sort by score, cap, return
MergePartitions ==
    /\ pc = "loop" /\ (result.todo = {} \/ result.status # "ok")
    /\ result' \in SplitMerge(boxes, Acc(result), Pop(call.nms_cfg, "max_num", -1))
    /\ pc' = "done"
    /\ UNCHANGED <<boxes, scores, idxs, call>>

NextSplit == EnterSplitLoop \/ RunPartition \/ MergePartitions

SpecSplit == InitSplit /\ [][NextSplit]_vars

\* batched_nms called on rotated boxes, with and without a config
InitRotated ==
    /\ boxes \in SeqsUpTo({RotA, RotB}, MaxN)
    /\ scores \in [1..Len(boxes) -> ScoreSet]
    /\ idxs \in [1..Len(boxes) -> ClassIds]
    /\ pc = "start"
    /\ call = NoCall
    /\ result = NoResult

NextRotated == CallBatchedNms \/ CallBatchedNmsNoCfg

SpecRotated == InitRotated /\ [][NextRotated]_vars

----------------------------------------------------------------------------
(* nms_match called on every input *)

CallNmsMatch ==
    /\ pc = "start"
    /\ \E thr \in Thresholds \cup { <<2, 3>>, <<-1, 2>> } :
         /\ call' = [fn |-> "nms_match", iou_threshold |-> thr]
         /\ result' = nms_match(CatScore(boxes, scores), thr)
    /\ pc' = "done"
    /\ UNCHANGED <<boxes, scores, idxs>>

NextMatch == CallNmsMatch

SpecMatch == InitNms /\ [][NextMatch]_vars

----------------------------------------------------------------------------
(* What the batched_nms call of the current state was asked to do *)

N == Len(boxes)
Kept == result.inds
KeptSet == Range(result.inds)

WithCfg == Ok("batched_nms") /\ call.has_cfg
ClassAgnostic == Pop(call.nms_cfg, "class_agnostic", call.class_agnostic)
OpIsNms == Pop(call.nms_cfg, "type", "nms") = "nms"
SplitPath == N >= Pop(call.nms_cfg, "split_thr", DefaultSplitThr)
Capped == Pop(call.nms_cfg, "max_num", -1) > 0

\* plain IoU of the caller's boxes at two positions
BoxIoU(i, j) == IoU(boxes[i], boxes[j], 0)

\* reference: plain nms run on each class alone, on the original
\* coordinates, the kept positions merged
ClassPositions(c) == NonZero([k \in 1..N |-> idxs[k] = c])

PerClassKept(thr) ==
    UNION { Range(Gather(ClassPositions(c),
                         nms(Gather(boxes, ClassPositions(c)),
                             Gather(scores, ClassPositions(c)),
                             thr, 0, <<0, 1>>, -1).inds)) : c \in Range(idxs) }

----------------------------------------------------------------------------
(* C1: for every call of nms, no two kept boxes have IoU greater than      *)
(* iou_threshold.                                                          *)
NmsNoOverlap ==
    Ok("nms") =>
        \A p, q \in 1..Len(Kept) :
            p # q => RLeq(BoxIoU(Kept[p], Kept[q]), call.iou_threshold)

\* a call that suppressed a box and kept two others
NmsNoOverlapWitness ==
    /\ Ok("nms")
    /\ call.max_num = -1 /\ call.score_threshold = <<0, 1>>
    /\ N = 3 /\ Len(Kept) = 2
    /\ \E j \in 1..N : j \notin KeptSet /\ RLess(call.iou_threshold, BoxIoU(Kept[1], j))

----------------------------------------------------------------------------
(* C2 as claimed: in every output of batched_nms called with a config, two *)
(* kept boxes of the same class have IoU (original coordinates) at most    *)
(* iou_threshold.                                                          *)
SameClassNoOverlap ==
    \A p, q \in 1..Len(Kept) :
        (p # q /\ idxs[Kept[p]] = idxs[Kept[q]]) =>
            RLeq(BoxIoU(Kept[p], Kept[q]), call.nms_cfg["iou_threshold"])

BatchedNoOverlapAnyOp == WithCfg => SameClassNoOverlap

(* C2 amended: the same, when the op of the config is nms.                 *)
BatchedNoOverlap == (WithCfg /\ OpIsNms) => SameClassNoOverlap

\* the split path with a box suppressed by a box of its own class
BatchedNoOverlapWitness ==
    /\ WithCfg /\ OpIsNms /\ ~ClassAgnostic /\ SplitPath
    /\ Len(Kept) = 2
    /\ \E j \in 1..N : /\ j \notin KeptSet
                       /\ \E p \in 1..2 : /\ idxs[Kept[p]] = idxs[j]
                                          /\ RLess(<<1, 2>>, BoxIoU(Kept[p], j))

----------------------------------------------------------------------------
(* C3 as claimed: on the split path, for every config, the kept positions  *)
(* are, as a set, those of plain nms run on each class and merged.         *)
SplitEqualsPerClassAnyConfig ==
    (WithCfg /\ SplitPath) =>
        KeptSet = PerClassKept(call.nms_cfg["iou_threshold"])

(* C3 amended: the same, when the op is nms and the config sets no         *)
(* positive max_num; with max_num = m > 0 the output is m positions of     *)
(* that set (all of it when it has at most m).                             *)
SplitEqualsPerClass ==
    (WithCfg /\ SplitPath /\ OpIsNms) =>
        LET ref == PerClassKept(call.nms_cfg["iou_threshold"])
        IN  IF Capped
            THEN /\ KeptSet \subseteq ref
                 /\ Cardinality(KeptSet) =
                        Min(call.nms_cfg["max_num"], Cardinality(ref))
            ELSE KeptSet = ref

\* two classes, each with a suppressed box or a survivor, on the split path
SplitEqualsPerClassWitness ==
    /\ WithCfg /\ SplitPath /\ OpIsNms /\ ~Capped
    /\ N = 3 /\ Cardinality(Range(idxs)) = 2 /\ Len(Kept) = 2

----------------------------------------------------------------------------
(* C4: with class_agnostic false, the single-pass (offset trick) path      *)
(* keeps the positions of nms run on each class alone and merged (here     *)
(* for the op nms without a max_num cap).                                  *)
SinglePassEqualsPerClass ==
    (WithCfg /\ ~ClassAgnostic /\ ~SplitPath /\ OpIsNms /\ ~Capped) =>
        KeptSet = PerClassKept(call.nms_cfg["iou_threshold"])

----------------------------------------------------------------------------
(* C5: with class_agnostic false, after the offset idxs * (max + 1) is     *)
(* added, two boxes of different classes have zero intersection.           *)
OffsetsSeparateClasses ==
    (Done("batched_nms") /\ call.has_cfg /\ ~ClassAgnostic /\ N >= 1) =>
        \A i, j \in 1..N :
            idxs[i] # idxs[j] =>
                Intersection(ShiftedBoxes(boxes, idxs)[i],
                             ShiftedBoxes(boxes, idxs)[j], 0) = 0

----------------------------------------------------------------------------
(* C6: with class_agnostic true the op runs once over all boxes: no two    *)
(* kept boxes have IoU greater than iou_threshold, whatever their classes, *)
(* for every N (here for the op nms).                                      *)
ClassAgnosticNoOverlap ==
    (WithCfg /\ ClassAgnostic /\ OpIsNms) =>
        \A p, q \in 1..Len(Kept) :
            p # q => RLeq(BoxIoU(Kept[p], Kept[q]), call.nms_cfg["iou_threshold"])

----------------------------------------------------------------------------
(* C7: batched_nms without a config suppresses nothing: the indices are a  *)
(* permutation of all positions, the scores are non-increasing, and row k  *)
(* is the unchanged box at inds[k] followed by its unchanged score.        *)
BypassReturnsAllSorted ==
    (Ok("batched_nms") /\ ~call.has_cfg) =>
        /\ Len(Kept) = N /\ KeptSet = 1..N
        /\ Len(result.dets) = N
        /\ \A k \in 1..N : result.dets[k] = Append(boxes[Kept[k]], scores[Kept[k]])
        /\ \A k \in 1..(N - 1) : RLeq(scores[Kept[k + 1]], scores[Kept[k]])

\* a bypass call that had to reorder overlapping boxes of one class
BypassReturnsAllSortedWitness ==
    /\ Ok("batched_nms") /\ ~call.has_cfg
    /\ N = 3 /\ Kept = <<3, 1, 2>>
    /\ RLess(scores[1], scores[3])
    /\ boxes[1] = boxes[2] /\ idxs[1] = idxs[2] /\ boxes[3] # boxes[1]

----------------------------------------------------------------------------
(* C8: on every path of batched_nms, row k of the returned array holds the *)
(* original coordinates of the box at keep[k], and the array and keep have *)
(* the same length.                                                        *)
ReturnsOriginalBoxes ==
    Ok("batched_nms") =>
        /\ Len(result.dets) = Len(Kept)
        /\ \A k \in 1..Len(Kept) :
              SubSeq(result.dets[k], 1, Len(result.dets[k]) - 1) = boxes[Kept[k]]

\* a box of class 1 (shifted for suppression) is returned
ReturnsOriginalBoxesWitness ==
    /\ WithCfg /\ ~ClassAgnostic /\ ~SplitPath
    /\ N = 3 /\ Len(Kept) = 2
    /\ \E k \in 1..Len(Kept) :
          /\ idxs[Kept[k]] = 1
          /\ ShiftedBoxes(boxes, idxs)[Kept[k]] # boxes[Kept[k]]

----------------------------------------------------------------------------
(* C9: for N >= 1 the groups of nms_match partition the positions: every   *)
(* group is non-empty and every position is in exactly one group, once.    *)
GroupsPartition ==
    (Ok("nms_match") /\ N >= 1) =>
        /\ \A g \in 1..Len(result.groups) : Len(result.groups[g]) >= 1
        /\ \A i \in 1..N :
              Cardinality({ gk \in { <<g, k>> : g \in 1..Len(result.groups),
                                                k \in 1..N } :
                              /\ gk[2] <= Len(result.groups[gk[1]])
                              /\ result.groups[gk[1]][gk[2]] = i }) = 1

\* a group of two and a group of one
GroupsPartitionWitness ==
    /\ Ok("nms_match") /\ N = 3
    /\ Len(result.groups) = 2
    /\ Len(result.groups[1]) = 2

----------------------------------------------------------------------------
(* C10: in every group of nms_match the first element is a kept            *)
(* representative (no representative of an earlier group suppresses it),   *)
(* it has the maximum score of the group, and the elements follow in       *)
(* descending score order.                                                 *)
GroupsScoreOrdered ==
    Ok("nms_match") =>
        \A g \in 1..Len(result.groups) :
            /\ \A h \in 1..(g - 1) :
                  RLeq(BoxIoU(result.groups[h][1], result.groups[g][1]),
                       call.iou_threshold)
            /\ \A k \in 1..Len(result.groups[g]) :
                  RLeq(scores[result.groups[g][k]], scores[result.groups[g][1]])
            /\ \A k \in 1..(Len(result.groups[g]) - 1) :
                  RLeq(scores[result.groups[g][k + 1]], scores[result.groups[g][k]])

\* a group whose representative is not the first position of the input
GroupsScoreOrderedWitness ==
    /\ Ok("nms_match")
    /\ \E g \in 1..Len(result.groups) :
          /\ Len(result.groups[g]) = 3
          /\ result.groups[g][1] > result.groups[g][2]
          /\ RLess(scores[result.groups[g][3]], scores[result.groups[g][1]])

----------------------------------------------------------------------------
(* C11 as claimed: for soft_nms with any method, every returned score is   *)
(* at most the input score of the detection at the returned index.         *)
SoftScoresDecayed ==
    \A k \in 1..Len(Kept) : RLeq(LastCol(result.dets[k]), scores[Kept[k]])

MonotoneDecayAnyInput == Ok("soft_nms") => SoftScoresDecayed

(* C11 amended: the same, when sigma is positive (gaussian) and the scores *)
(* that can be returned are not negative (min_score >= 0, or no input      *)
(* score below 0): a weight in [0, 1] lowers only a non-negative score.    *)
MonotoneDecay ==
    ( /\ Ok("soft_nms")
      /\ call.method = "gaussian" => RLess(<<0, 1>>, call.sigma)
      /\ \/ RLeq(<<0, 1>>, call.min_score)
         \/ \A i \in 1..N : RLeq(<<0, 1>>, scores[i]) )
    => SoftScoresDecayed

\* a gaussian call that returned three boxes, two of them decayed
MonotoneDecayWitness ==
    /\ Ok("soft_nms") /\ call.method = "gaussian"
    /\ RLess(<<0, 1>>, call.sigma)
    /\ N = 3 /\ Len(Kept) = 3
    /\ \A i \in 1..N : RLeq(<<0, 1>>, scores[i])
    /\ Cardinality({ k \in 1..3 : RLess(LastCol(result.dets[k]), scores[Kept[k]]) })
          = 2

----------------------------------------------------------------------------
(* The kept boxes and kept scores of an nms call, as a caller reads them   *)
(* from the returned rows                                                  *)
KeptBoxes == [k \in 1..Len(result.dets) |-> SubSeq(result.dets[k], 1, 4)]
KeptScores == [k \in 1..Len(result.dets) |-> LastCol(result.dets[k])]
Identity(n) == [k \in 1..n |-> k]

(* C12: nms applied, with the same iou_threshold, to the kept boxes and    *)
(* kept scores of an nms call keeps every one of them in the same order    *)
(* (with the other arguments at their defaults, and with the same ones).   *)
NmsIdempotent ==
    Ok("nms") =>
        /\ nms(KeptBoxes, KeptScores, call.iou_threshold, 0, <<0, 1>>, -1).inds
              = Identity(Len(Kept))
        /\ nms(KeptBoxes, KeptScores, call.iou_threshold, call.offset,
               call.score_threshold, call.max_num).inds = Identity(Len(Kept))

\* the first call suppressed a box and returned the others out of position
NmsIdempotentWitness ==
    /\ Ok("nms") /\ N = 3 /\ Len(Kept) = 2
    /\ Kept[1] > Kept[2]
    /\ call.max_num = -1 /\ call.score_threshold = <<0, 1>>

----------------------------------------------------------------------------
(* C13: every row of nms is the caller's box and score at the returned     *)
(* index; with score_threshold > 0 every returned score is greater than    *)
(* it and the output is that of nms on the detections above the threshold, *)
(* mapped to the caller's positions; with score_threshold <= 0 nothing is  *)
(* dropped for its score: a detection left out of an uncapped output is    *)
(* suppressed by a kept one.                                               *)
AboveThreshold ==
    SelectSeq(Identity(N), LAMBDA i : RLess(call.score_threshold, scores[i]))

ScoreThresholdFilters ==
    Ok("nms") =>
        /\ \A k \in 1..Len(Kept) :
              /\ Kept[k] \in 1..N
              /\ result.dets[k] = Append(boxes[Kept[k]], scores[Kept[k]])
        /\ IF RLess(<<0, 1>>, call.score_threshold)
           THEN /\ \A k \in 1..Len(Kept) :
                     RLess(call.score_threshold, scores[Kept[k]])
                /\ Kept = Gather(AboveThreshold,
                                 nms(Gather(boxes, AboveThreshold),
                                     Gather(scores, AboveThreshold),
                                     call.iou_threshold, call.offset, <<0, 1>>,
                                     call.max_num).inds)
           ELSE call.max_num <= 0 =>
                    \A i \in (1..N) \ KeptSet :
                        \E p \in KeptSet :
                            RLess(call.iou_threshold, BoxIoU(p, i))

\* the first detection is dropped for its score, the others are returned
\* at their positions in the caller's arrays
ScoreThresholdFiltersWitness ==
    /\ Ok("nms") /\ call.score_threshold = <<1, 2>>
    /\ N = 3 /\ Kept = <<2, 3>>
    /\ RLeq(scores[1], call.score_threshold)
    /\ \A p \in KeptSet : RLeq(BoxIoU(p, 1), call.iou_threshold)

----------------------------------------------------------------------------
(* C14: with max_num > 0 nms returns the first min(max_num, K) of the K    *)
(* indices it returns without a cap, in the same order; with max_num <= 0  *)
(* (0 included) it returns all K.                                          *)
Uncapped ==
    nms(boxes, scores, call.iou_threshold, call.offset, call.score_threshold,
        -1).inds

MaxNumCaps ==
    Ok("nms") =>
        IF call.max_num > 0
        THEN Kept = SubSeq(Uncapped, 1, Min(call.max_num, Len(Uncapped)))
        ELSE Kept = Uncapped /\ (N >= 1 /\ call.score_threshold = <<0, 1>>
                                    => Len(Kept) >= 1)

\* a cap of one cuts an output of three
MaxNumCapsWitness ==
    /\ Ok("nms") /\ call.max_num = 1
    /\ Len(Uncapped) = 3 /\ Kept = <<Uncapped[1]>>

----------------------------------------------------------------------------
(* C15: the indices returned by nms are in non-increasing score order, and *)
(* of two kept detections with equal scores the one with the smaller       *)
(* input index comes first.                                                *)
ScoreOrderStable ==
    Ok("nms") =>
        \A p, q \in 1..Len(Kept) :
            p < q =>
                /\ RLeq(scores[Kept[q]], scores[Kept[p]])
                /\ scores[Kept[q]] = scores[Kept[p]] => Kept[p] < Kept[q]

\* three kept detections, the two with equal scores in input order ahead
\* of the one between them
ScoreOrderStableWitness ==
    /\ Ok("nms") /\ N = 3 /\ Kept = <<1, 3, 2>>
    /\ scores[1] = scores[3]

----------------------------------------------------------------------------
(* C16: the offset argument of nms is the offset of the IoU used for       *)
(* suppression: no two boxes kept by nms(..., offset) have an IoU,         *)
(* computed with the +offset term in every width and height, greater than  *)
(* iou_threshold (two identical single-point boxes, IoU 1 with offset 1,   *)
(* are not both kept).                                                     *)
OffsetControlsIoU ==
    Ok("nms") =>
        \A p, q \in 1..Len(Kept) :
            p # q => RLeq(IoU(boxes[Kept[p]], boxes[Kept[q]], call.offset),
                          call.iou_threshold)

----------------------------------------------------------------------------
(* C17: nms and soft_nms reject an offset outside {0, 1}, boxes whose      *)
(* second dimension is not 4, scores whose length is not the number of     *)
(* boxes and, for soft_nms, a method outside {naive, linear, gaussian}:    *)
(* the call fails and returns no output; every other call returns.         *)
InvalidArguments ==
    \/ \E k \in 1..N : Len(boxes[k]) # 4
    \/ Len(scores) # N
    \/ call.offset \notin {0, 1}
    \/ call.fn = "soft_nms" /\ call.method \notin {"naive", "linear", "gaussian"}

RejectsInvalid ==
    (Done("nms") \/ Done("soft_nms")) =>
        IF InvalidArguments
        THEN result = Failure("AssertionError")
        ELSE result.status = "ok"

\* soft_nms rejecting an unknown method on otherwise valid arguments
RejectsInvalidWitness ==
    /\ Done("soft_nms") /\ call.method = "bilinear" /\ call.offset = 0
    /\ N = 3 /\ Len(scores) = 3 /\ Len(boxes[1]) = 4
    /\ result.status = "AssertionError"

----------------------------------------------------------------------------
(* C18: batched_nms fails, and returns nothing, whenever the length of the *)
(* class ids or of the scores differs from the number of boxes, on every   *)
(* path, the call without a config included.                               *)
BatchedRejectsShapes ==
    (Done("batched_nms") /\ (Len(idxs) # N \/ Len(scores) # N)) =>
        result.status \notin {"ok"}

----------------------------------------------------------------------------
(* C19: with N = 0 detections batched_nms returns without error and with   *)
(* zero kept detections, without a config and with one, class_agnostic     *)
(* true or false.                                                          *)
EmptyInputReturnsEmpty ==
    (Done("batched_nms") /\ N = 0) =>
        /\ result.status = "ok"
        /\ result.dets = <<>> /\ result.inds = <<>>

----------------------------------------------------------------------------
(* C20: batched_nms called with a config on rotated boxes (N x 5)          *)
(* completes and returns, for every kept index, a row of 6 values: the     *)
(* original 5 box values and the score.                                    *)
RotatedAccepted ==
    (Done("batched_nms") /\ call.has_cfg /\ N >= 1 /\ Len(boxes[1]) = 5) =>
        /\ result.status = "ok"
        /\ Len(result.dets) = Len(Kept)
        /\ \A k \in 1..Len(Kept) :
              /\ Len(result.dets[k]) = 6
              /\ SubSeq(result.dets[k], 1, 5) = boxes[Kept[k]]

----------------------------------------------------------------------------
(* C21: nms on the seven boxes of its docstring, with their scores,        *)
(* iou_threshold 0.6 and the defaults, returns exactly 3 rows and 3        *)
(* indices.                                                                *)
NmsExampleGivesThree ==
    ( /\ Ok("nms") /\ call.iou_threshold = <<3, 5>>
      /\ boxes = NmsExampleBoxes /\ scores = NmsExampleScores )
    => Len(result.dets) = 3 /\ Len(Kept) = 3

\* the call of the docstring: the first of each cluster and the one box of
\* the second cluster that overlaps it by less than 0.6
NmsExampleGivesThreeWitness ==
    /\ Ok("nms") /\ call.iou_threshold = <<3, 5>>
    /\ boxes = NmsExampleBoxes /\ scores = NmsExampleScores
    /\ Kept = <<1, 4, 5>>

----------------------------------------------------------------------------
(* C22: soft_nms on the six boxes of its docstring, with their scores,     *)
(* iou_threshold 0.6, sigma 0.5 and the defaults (method linear), returns  *)
(* exactly 5 rows and 5 indices: no score decays and only the detection    *)
(* with score 0.0 is left out.                                             *)
SoftExampleGivesFive ==
    ( /\ Ok("soft_nms") /\ call.method = "linear"
      /\ boxes = SoftExampleBoxes /\ scores = SoftExampleScores )
    => /\ Len(result.dets) = 5 /\ Len(Kept) = 5 /\ KeptSet = 1..5
       /\ \A k \in 1..5 : LastCol(result.dets[k]) = scores[Kept[k]]

\* the call of the docstring
SoftExampleGivesFiveWitness ==
    /\ Ok("soft_nms") /\ call.method = "linear"
    /\ boxes = SoftExampleBoxes /\ scores = SoftExampleScores
    /\ Kept = <<1, 2, 3, 4, 5>>

----------------------------------------------------------------------------
(* C24: in batched_nms a config with max_num = m > 0 caps the final        *)
(* output, for the op nms and the op soft_nms, on the single-pass path and *)
(* on the split path: the call succeeds and returns the min(m, K)          *)
(* highest-scoring of the K detections it returns without max_num, in      *)
(* descending score order.                                                 *)
UncappedResults ==
    batched_nms(boxes, scores, idxs, TRUE, Without(call.nms_cfg, {"max_num"}),
                call.class_agnostic)

CappedPrefixOf(u) ==
    /\ u.status = "ok"
    /\ Len(Kept) = Min(call.nms_cfg["max_num"], Len(u.inds))
    /\ \A k \in 1..Len(Kept) : LastCol(result.dets[k]) = LastCol(u.dets[k])

MaxNumGlobalCap ==
    (Done("batched_nms") /\ call.has_cfg /\ Capped /\ N >= 1) =>
        /\ result.status = "ok"
        /\ \E u \in UncappedResults : CappedPrefixOf(u)

----------------------------------------------------------------------------
(* C25: on the split path each class partition writes total_mask and       *)
(* scores_after_nms at the positions of its own class only, and what it    *)
(* writes there depends on its own boxes and scores only; so, the merge    *)
(* running after all partitions, the result is the one of the loop in      *)
(* ascending class order, whatever order the partitions ran in.            *)
Alone(id) ==
    SplitPartition(EmptyAcc, ClassMask(id), ShiftedBoxes(boxes, idxs), scores,
                   Pop(call.nms_cfg, "type", "nms"), SplitKwargs(call.nms_cfg))

WrittenBy(id, alone) ==
    \A j \in Range(ClassMask(id)) :
        /\ result.total_mask[j] = alone.total_mask[j]
        /\ result.scores_after_nms[j] = alone.scores_after_nms[j]

NotWritten(id) ==
    \A j \in Range(ClassMask(id)) :
        /\ result.total_mask[j] = FALSE
        /\ result.scores_after_nms[j] = <<0, 1>>

PartitionsIndependent ==
    /\ pc = "loop" =>
          \A id \in Range(idxs) :
              IF id \in result.todo THEN NotWritten(id)
              ELSE WrittenBy(id, Alone(id))
    /\ Done("batched_nms") =>
          result \in batched_nms(boxes, scores, idxs, TRUE, call.nms_cfg, FALSE)

\* three classes, the partition of the highest class id run first
PartitionsIndependentWitness ==
    /\ pc = "loop" /\ N = 3
    /\ Range(idxs) = {0, 1, 2} /\ result.todo = {0, 1}
    /\ result.total_mask[CHOOSE j \in 1..N : idxs[j] = 2]

----------------------------------------------------------------------------
(* C26: in soft_nms a detection whose score is at or below min_score,      *)
(* initially or after the decay of the first pick, is not in the output;   *)
(* every returned score is strictly greater than min_score and every index *)
(* is returned at most once.                                               *)
SoftCandidates ==
    StableSortDesc(SelectSeq([k \in 1..N |-> k],
                             LAMBDA j : RLess(call.min_score, scores[j])),
                   scores)

AfterFirstPick ==
    Decay(Head(SoftCandidates), Tail(SoftCandidates), scores, boxes,
          call.iou_threshold, call.sigma, call.method)

DroppedAtStart == { j \in 1..N : RLeq(scores[j], call.min_score) }

DroppedAfterFirstPick ==
    IF SoftCandidates = <<>> THEN {}
    ELSE { j \in Range(Tail(SoftCandidates)) :
             RLeq(AfterFirstPick[j], call.min_score) }

----------------------------------------------------------------------------
(* C27: soft_nms with method naive, on scores that are all greater than    *)
(* min_score >= 0, keeps the same indices in the same order as nms with    *)
(* the same iou_threshold and offset, and returns the input scores.        *)
HardNms == nms(boxes, scores, call.iou_threshold, call.offset, <<0, 1>>, -1)

NaiveCase ==
    /\ Ok("soft_nms") /\ call.method = "naive"
    /\ RLeq(<<0, 1>>, call.min_score)
    /\ \A i \in 1..N : RLess(call.min_score, scores[i])

NaiveIsHardNms ==
    NaiveCase =>
        /\ HardNms.status = "ok"
        /\ Kept = HardNms.inds
        /\ result.dets = HardNms.dets
        /\ \A k \in 1..Len(Kept) : LastCol(result.dets[k]) = scores[Kept[k]]

\* three detections, one of them suppressed, called with offset 1
NaiveIsHardNmsWitness ==
    /\ NaiveCase /\ N = 3 /\ Len(Kept) = 2 /\ call.offset = 1
    /\ scores[1] # scores[2]

----------------------------------------------------------------------------
(* C28: the first elements of the groups of nms_match, in group order, are *)
(* the indices nms returns for the same boxes, scores and iou_threshold;   *)
(* every other member of a group has IoU above iou_threshold with the      *)
(* first element of its group and with that of no earlier group.           *)
Representatives == [g \in 1..Len(result.groups) |-> result.groups[g][1]]

NmsOfMatch == nms(boxes, scores, call.iou_threshold, 0, <<0, 1>>, -1)

MatchFollowsNms ==
    Ok("nms_match") =>
        /\ NmsOfMatch.status = "ok"
        /\ Representatives = NmsOfMatch.inds
        /\ \A g \in 1..Len(result.groups) :
              \A k \in 2..Len(result.groups[g]) :
                  /\ RLess(call.iou_threshold,
                           BoxIoU(result.groups[g][1], result.groups[g][k]))
                  /\ \A h \in 1..(g - 1) :
                        RLeq(BoxIoU(result.groups[h][1], result.groups[g][k]),
                             call.iou_threshold)

\* two groups, the second with a member that the first did not take
MatchFollowsNmsWitness ==
    /\ Ok("nms_match") /\ N = 3
    /\ Len(result.groups) = 2 /\ Len(result.groups[2]) = 2
    /\ RLess(<<0, 1>>, BoxIoU(result.groups[1][1], result.groups[2][2]))

----------------------------------------------------------------------------
(* C29: a call of nms, soft_nms or batched_nms, whether it returns or      *)
(* fails, leaves the caller's boxes, scores and class ids as they were,    *)
(* and the caller's config dict of batched_nms with all its keys and       *)
(* values.                                                                 *)
CallerCfgKept ==
    (call'.fn = "batched_nms" /\ call'.has_cfg) => call'.cfg_after = call'.nms_cfg

CallerArraysKept == boxes' = boxes /\ scores' = scores /\ idxs' = idxs

NoCallerMutation == [][CallerArraysKept /\ CallerCfgKept]_vars

\* a split-path call whose config names the op, the split threshold and
\* the cap, all three popped from the copy
NoCallerMutationWitness ==
    /\ Ok("batched_nms") /\ call.has_cfg /\ N = 3
    /\ {"type", "split_thr", "max_num"} \subseteq DOMAIN call.nms_cfg
    /\ PoppedKeys(boxes, call.nms_cfg, call.class_agnostic)
          = <<"class_agnostic", "type", "split_thr", "max_num">>
    /\ call.cfg_after = call.nms_cfg

----------------------------------------------------------------------------
(* C30: with max_num <= 0, every detection that passes the score filter    *)
(* of nms and is not kept has IoU above iou_threshold with a kept          *)
(* detection that precedes it in the sorted order (higher score, or equal  *)
(* score and smaller index); the first detection of the sorted order is    *)
(* kept, and is kept first.  The IoU is taken without the offset term, as  *)
(* the scan computes it, and with the offset of the call.                  *)
PassesFilter(i) ==
    RLess(<<0, 1>>, call.score_threshold) => RLess(call.score_threshold, scores[i])

Precedes(p, i) ==
    \/ RLess(scores[i], scores[p])
    \/ (~RLess(scores[p], scores[i]) /\ p < i)

Scanned == { i \in 1..N : PassesFilter(i) }

FirstScanned == CHOOSE p \in Scanned : \A i \in Scanned \ {p} : Precedes(p, i)

GreedyMaximalFor(offset) ==
    (Ok("nms") /\ call.max_num <= 0) =>
        /\ \A i \in Scanned \ KeptSet :
              \E p \in KeptSet :
                  /\ Precedes(p, i)
                  /\ RLess(call.iou_threshold, IoU(boxes[p], boxes[i], offset))
        /\ Scanned # {} => (Kept # <<>> /\ Kept[1] = FirstScanned)

\* with the IoU of the scan and with the IoU of the offset asked for
GreedyMaximal ==
    GreedyMaximalFor(NmsPytorchOffset) /\ GreedyMaximalFor(call.offset)

\* tied scores: the later of two overlapping boxes is left out, the box at
\* the lowest position is kept first
GreedyMaximalWitness ==
    /\ Ok("nms") /\ call.max_num <= 0 /\ N = 3 /\ Scanned = 1..3
    /\ Kept = <<1, 3>>
    /\ ~RLess(scores[1], scores[2]) /\ ~RLess(scores[2], scores[1])

=============================================================================
